---- MODULE Spec2Model ----
(***************************************************************************)
(* A model of the R1CS-to-script pipeline of this repository:              *)
(*   - src/src/main.rs: R1CSFileHeader::read, R1CSFileInstance::read,      *)
(*     SparseLc::to_linear_combination, CircuitFromR1CS, and the           *)
(*     packaging / script assembly of main();                              *)
(*   - src/src/r1cs.rs: read_r1cs_file.                                    *)
(* A file is a sequence of bytes.  The decoders read it through a file     *)
(* position, as the code does.  32-bit unsigned values are kept as a pair  *)
(* of 16-bit halves, so that the u32 arithmetic of the code (wrap-around,  *)
(* overflow panics) is modelled at its width.                              *)
(***************************************************************************)
EXTENDS Integers, Sequences, FiniteSets, TLC

VARIABLES
  \* ---- decoders and circuit builder ----
  build,        \* "debug" (overflow checks panic) or "release" (u32 wraps)
  entry,        \* "instance": R1CSFileInstance::read, "r1cs": read_r1cs_file
  input,        \* the synthetic header and constraint list the file encodes
  file,         \* the bytes of the file
  pos,          \* the file position
  maxRead,      \* the highest file offset any read has consumed so far
  pc,           \* the decoder's / builder's position
  header,       \* <<>> or <<the decoded header>>
  lcIdx,        \* which combination of the current constraint is next (0,1,2)
  cur,          \* the combinations of the current constraint decoded so far
  constraints,  \* the decoded constraints so far
  witness,      \* R1CSFileInstance.witness
  result,       \* "none" | "ok" | "err" | "panic": the decoder's outcome
  overPos,      \* file position right after the first oversized term count, or -1
  oneVar,       \* <<>> or <<the ONE_WIRE variable>>
  pubVars,      \* allocated public input variables
  privVars,     \* allocated private witness variables
  asserted,     \* the constraints enforced on the backend, in order
  cirResult,    \* "none" | "ok": generate_constraints' outcome
  \* ---- packaging and script assembly ----
  numPub,       \* num_pub as read_r1cs_info returned it
  publicInputs, \* public_inputs: the scalars handed to the prover and packaged
  proof,        \* the proof: the points A, B, C (coordinates are values of Fq)
  vk,           \* the verifying key: the compressed encoding of each point
  vkBytes,      \* the serialized verifying key
  proofItems,   \* proof_items_bytes
  publicItems,  \* public_input_items_bytes
  vkChunks,     \* vk_chunks
  stackItems,   \* stack_items_bytes
  scriptBuf,    \* script_buf
  itemIdx,      \* how many stack items the script loop has consumed
  ppc,          \* the packager's / assembler's position
  \* ---- validate_constraints ----
  verdicts      \* <<>> or the four `valid` flags validate_constraints printed

decVars == <<build, entry, input, file, pos, maxRead, pc, header, lcIdx, cur,
             constraints, witness, result, overPos>>
cirVars == <<oneVar, pubVars, privVars, asserted, cirResult>>
packVars == <<numPub, publicInputs, proof, vk, vkBytes, proofItems, publicItems,
              vkChunks>>
scriptVars == <<stackItems, scriptBuf, itemIdx, ppc>>
fixVars == <<verdicts>>
vars == <<decVars, cirVars, packVars, scriptVars, fixVars>>

(***************************************************************************)
(* Unsigned 32-bit values and byte strings                                 *)
(***************************************************************************)
Half == 256 * 256

\* A u32 as a pair of 16-bit halves.
FromInt(n) == [hi |-> n \div Half, lo |-> n % Half]

\* Only for values below 2^31.
ToInt(x) == x.hi * Half + x.lo

U32Max == [hi |-> Half - 1, lo |-> Half - 1]

U32Gt(a, b) == a.hi > b.hi \/ (a.hi = b.hi /\ a.lo > b.lo)

\* a + b in u32: the wrapped sum and whether the exact sum overflowed.
U32Add(a, b) ==
  LET lo == a.lo + b.lo
      hi == a.hi + b.hi + (lo \div Half)
  IN [val |-> [hi |-> hi % Half, lo |-> lo % Half], overflow |-> hi >= Half]

\* a - 1 in u32: the wrapped difference and whether it underflowed.
U32Pred(a) ==
  IF a.lo > 0 THEN [val |-> [hi |-> a.hi, lo |-> a.lo - 1], overflow |-> FALSE]
  ELSE IF a.hi > 0 THEN [val |-> [hi |-> a.hi - 1, lo |-> Half - 1], overflow |-> FALSE]
  ELSE [val |-> U32Max, overflow |-> TRUE]

RECURSIVE Pow256(_)
Pow256(k) == IF k = 0 THEN 1 ELSE 256 * Pow256(k - 1)

\* The n little-endian bytes of a small non-negative integer v (v < 2^24).
LEBytes(v, n) == [i \in 1..n |-> IF i <= 3 THEN (v \div Pow256(i - 1)) % 256 ELSE 0]

\* The 4 little-endian bytes of a u32.
U32Bytes(x) == <<x.lo % 256, x.lo \div 256, x.hi % 256, x.hi \div 256>>

\* byteorder's read_u32::<LittleEndian> at offset p (0-based) of f.
U32At(f, p) == [hi |-> f[p + 3] + 256 * f[p + 4], lo |-> f[p + 1] + 256 * f[p + 2]]

CanRead(f, p, n) == p + n <= Len(f)

Max(a, b) == IF a >= b THEN a ELSE b
Min(a, b) == IF a <= b THEN a ELSE b

RECURSIVE Concat(_)
Concat(ss) == IF ss = <<>> THEN <<>> ELSE Head(ss) \o Concat(Tail(ss))

(***************************************************************************)
(* Synthetic inputs and the container encoding the decoders read           *)
(***************************************************************************)
MaxConstraints == 2

GoodMagic == <<114, 49, 99, 115>>      \* "r1cs"
BadMagic == <<114, 49, 99, 120>>

Term(w, c) == [wire |-> w, coeff |-> c]
Lc(ts) == [count |-> Len(ts), terms |-> ts]
\* A combination whose declared term count is n, with no term following it.
LcDeclared(n) == [count |-> n, terms |-> <<>>]

\* The constraints synthetic lists are built from: the first three come from
\* the four-constraint fixture, the others carry a wire index out of range, a
\* wire index above 100,000,000 and term counts above the two ceilings.
ConstraintPool ==
  { <<Lc(<<Term(4, 1)>>), Lc(<<Term(1, 1)>>), Lc(<<>>)>>,
    <<Lc(<<Term(0, 2), Term(4, 1)>>), Lc(<<Term(2, 1)>>), Lc(<<Term(3, 3)>>)>>,
    <<Lc(<<>>), Lc(<<>>), Lc(<<Term(1, 1), Term(2, 1), Term(3, 0)>>)>>,
    <<Lc(<<Term(9, 1)>>), Lc(<<Term(1, 1)>>), Lc(<<Term(100000001, 1)>>)>>,
    <<LcDeclared(10001), Lc(<<Term(1, 1)>>), Lc(<<Term(2, 1)>>)>>,
    <<Lc(<<Term(1, 1)>>), LcDeclared(1001), Lc(<<Term(2, 1)>>)>> }

\* Every declared count of the list is the number of terms that follow it,
\* and every wire index is one of the 5 wires.
WellFormedBody(body) ==
  \A i \in 1..Len(body) : \A k \in 1..3 :
    /\ body[i][k].count = Len(body[i][k].terms)
    /\ \A j \in 1..Len(body[i][k].terms) : body[i][k].terms[j].wire < 5

RECURSIVE SeqsUpTo(_, _)
SeqsUpTo(S, n) ==
  IF n = 0 THEN {<<>>}
  ELSE LET shorter == SeqsUpTo(S, n - 1)
       IN shorter \cup {Append(s, x) : s \in {t \in shorter : Len(t) = n - 1}, x \in S}

Bodies == SeqsUpTo(ConstraintPool, MaxConstraints)

Versions == {1, 2}
FieldSizes == {0, 1, 2}
TotalWires == {FromInt(0), FromInt(3), FromInt(5)}
NumPublics == {FromInt(0), FromInt(2), FromInt(4)}
NumPrivates == {FromInt(0), FromInt(2), U32Max}
OverCount == FromInt(1000001)

HeaderOf(m, v, fs, tw, np, npr, nc) ==
  [magic |-> m, version |-> v, fieldSize |-> fs, totalWires |-> tw,
   numPublic |-> np, numPrivate |-> npr, numConstraints |-> nc]

\* Every header variant with a list of at most one constraint, and a
\* consistent header (5 wires, 2 public, 2 private) with every list.
Inputs ==
  { [hdr |-> HeaderOf(m, v, fs, tw, np, npr, nc), body |-> b] :
      m \in {GoodMagic, BadMagic}, v \in Versions, fs \in FieldSizes,
      tw \in TotalWires, np \in NumPublics, npr \in NumPrivates,
      nc \in {OverCount}, b \in {<<>>} }
  \cup
  { [hdr |-> HeaderOf(m, v, fs, tw, np, npr, FromInt(Len(b))), body |-> b] :
      m \in {GoodMagic, BadMagic}, v \in Versions, fs \in FieldSizes,
      tw \in TotalWires, np \in NumPublics, npr \in NumPrivates,
      b \in SeqsUpTo(ConstraintPool, 1) }
  \cup
  { [hdr |-> HeaderOf(GoodMagic, 1, fs, FromInt(5), FromInt(2), FromInt(2),
                      FromInt(Len(b))), body |-> b] :
      fs \in FieldSizes, b \in Bodies }

\* The width in bytes of one coefficient: main.rs takes field_size in 64-bit
\* words, r1cs.rs takes it in bytes.
CoeffWidth(e, fs) == IF e = "instance" THEN fs * 8 ELSE fs

EncodeTerm(t, width) == U32Bytes(FromInt(t.wire)) \o LEBytes(t.coeff, width)

EncodeLc(lc, width) ==
  U32Bytes(FromInt(lc.count))
    \o Concat([i \in 1..Len(lc.terms) |-> EncodeTerm(lc.terms[i], width)])

EncodeConstraint(c, width) ==
  EncodeLc(c[1], width) \o EncodeLc(c[2], width) \o EncodeLc(c[3], width)

\* The header as each decoder lays it out.
EncodeHeader(e, h) ==
  IF e = "instance"
  THEN h.magic \o U32Bytes(FromInt(h.version)) \o U32Bytes(FromInt(h.fieldSize))
         \o U32Bytes(h.totalWires) \o U32Bytes(h.numPublic)
         \o U32Bytes(h.numPrivate) \o U32Bytes(h.numConstraints)
  ELSE h.magic \o U32Bytes(FromInt(h.version)) \o U32Bytes(h.totalWires)
         \o U32Bytes(h.numPublic) \o U32Bytes(h.numPrivate) \o <<0, 0, 0, 0>>
         \o U32Bytes(FromInt(h.fieldSize)) \o U32Bytes(h.numConstraints)

EncodeFile(e, in) ==
  EncodeHeader(e, in.hdr)
    \o Concat([i \in 1..Len(in.body) |->
                 EncodeConstraint(in.body[i], CoeffWidth(e, in.hdr.fieldSize))])

(***************************************************************************)
(* src/src/main.rs: R1CSFileHeader::read                                   *)
(***************************************************************************)
\* 0x73633172, "r1cs" read as a little-endian u32.
R1CS_MAGIC == [hi |-> 29539, lo |-> 12658]
SUPPORTED_VERSION == 1
MAX_REASONABLE_CONSTRAINTS == 1000000
MAX_TERMS_MAIN == 10000
MAX_WIRE_INDEX == 100000000
HEADER_BYTES == 28

\* A read that runs past the end of the file: the decoder returns the I/O error.
Eof(f, p, n) == ~CanRead(f, p, n)

\* The outcome of the sanity checks on the raw header fields: what
\* R1CSFileHeader::read returns after reading them.
HeaderChecks(b, fs, tw, np, npr, nc) ==
  LET fsb == ToInt(fs) * 8
  IN IF U32Gt(np, tw)
     THEN \* num_public is replaced by total_wires - 1
          LET adj == U32Pred(tw)
          IN IF adj.overflow /\ b = "debug"
             THEN [res |-> "panic", hdr |-> <<>>]
             ELSE [res |-> "ok",
                   hdr |-> <<[num_public |-> adj.val, num_witness |-> tw,
                              num_constraints |-> nc, field_size_bytes |-> fsb]>>]
     ELSE IF U32Gt(nc, FromInt(MAX_REASONABLE_CONSTRAINTS))
     THEN [res |-> "err", hdr |-> <<>>]
     ELSE \* num_public + num_private != total_wires only prints a warning
          LET sum == U32Add(np, npr)
          IN IF sum.overflow /\ b = "debug"
             THEN [res |-> "panic", hdr |-> <<>>]
             ELSE [res |-> "ok",
                   hdr |-> <<[num_public |-> np, num_witness |-> tw,
                              num_constraints |-> nc, field_size_bytes |-> fsb]>>]

Stop(r) ==
  /\ result' = r
  /\ pc' = "done"

\* HdrReadMagic without the comparison against the magic tag.
HdrReadMagicUnchecked ==
  /\ entry = "instance" /\ pc = "magic"
  /\ IF Eof(file, 0, 4)
     THEN /\ pos' = Len(file) /\ maxRead' = Max(maxRead, Len(file))
          /\ Stop("err")
     ELSE /\ pos' = 4 /\ maxRead' = Max(maxRead, 4)
          /\ result' = result /\ pc' = "version"
  /\ UNCHANGED <<fixVars, build, entry, input, file, header, lcIdx, cur, constraints,
                 witness, overPos, cirVars, packVars, scriptVars>>

\* file.seek(0); read the magic; reject a wrong one.
HdrReadMagic ==
  /\ entry = "instance" /\ pc = "magic"
  /\ IF Eof(file, 0, 4)
     THEN /\ pos' = Len(file) /\ maxRead' = Max(maxRead, Len(file))
          /\ Stop("err")
     ELSE /\ pos' = 4 /\ maxRead' = Max(maxRead, 4)
          /\ IF U32At(file, 0) # R1CS_MAGIC
             THEN Stop("err")
             ELSE result' = result /\ pc' = "version"
  /\ UNCHANGED <<fixVars, build, entry, input, file, header, lcIdx, cur, constraints,
                 witness, overPos, cirVars, packVars, scriptVars>>

\* Read the version; reject an unsupported one.
HdrReadVersion ==
  /\ entry = "instance" /\ pc = "version"
  /\ IF Eof(file, pos, 4)
     THEN /\ pos' = Len(file) /\ maxRead' = Max(maxRead, Len(file))
          /\ Stop("err")
     ELSE /\ pos' = pos + 4 /\ maxRead' = Max(maxRead, pos + 4)
          /\ IF U32At(file, pos) # FromInt(SUPPORTED_VERSION)
             THEN Stop("err")
             ELSE result' = result /\ pc' = "fields"
  /\ UNCHANGED <<fixVars, build, entry, input, file, header, lcIdx, cur, constraints,
                 witness, overPos, cirVars, packVars, scriptVars>>

\* Read field_size, total_wires, num_public, num_private, num_constraints, run
\* the sanity checks and return the header; R1CSFileInstance::read then seeks
\* to the constraint blocks at offset 28.
HdrReadFields ==
  /\ entry = "instance" /\ pc = "fields"
  /\ IF Eof(file, pos, 20)
     THEN /\ pos' = Len(file) /\ maxRead' = Max(maxRead, Len(file))
          /\ header' = header
          /\ Stop("err")
     ELSE LET chk == HeaderChecks(build, U32At(file, pos), U32At(file, pos + 4),
                                  U32At(file, pos + 8), U32At(file, pos + 12),
                                  U32At(file, pos + 16))
          IN /\ maxRead' = Max(maxRead, pos + 20)
             /\ header' = chk.hdr
             /\ IF chk.res = "ok"
                THEN pos' = HEADER_BYTES /\ result' = result /\ pc' = "lc"
                ELSE pos' = pos + 20 /\ Stop(chk.res)
  /\ UNCHANGED <<fixVars, build, entry, input, file, lcIdx, cur, constraints,
                 witness, overPos, cirVars, packVars, scriptVars>>

(***************************************************************************)
(* src/src/main.rs: R1CSFileInstance::read and read_sparse_lc              *)
(***************************************************************************)
\* bytes_to_field: the bytes are not looked at, the result is zero + one.
bytes_to_field(bytes) == 0 + 1

\* The term loop of read_sparse_lc: n terms left to read at offset p, acc the
\* terms kept so far.  A term whose wire index is above 100,000,000 is read
\* and dropped.
RECURSIVE ReadTermsMain(_, _, _, _, _)
ReadTermsMain(f, p, n, width, acc) ==
  IF n = 0 THEN [ok |-> TRUE, terms |-> acc, pos |-> p]
  ELSE IF Eof(f, p, 4 + width) THEN [ok |-> FALSE, terms |-> acc, pos |-> Len(f)]
  ELSE LET idx == U32At(f, p)
           coeff == bytes_to_field(SubSeq(f, p + 5, p + 4 + width))
       IN IF U32Gt(idx, FromInt(MAX_WIRE_INDEX))
          THEN ReadTermsMain(f, p + 4 + width, n - 1, width, acc)
          ELSE ReadTermsMain(f, p + 4 + width, n - 1, width,
                             Append(acc, [coeff |-> coeff, wire |-> ToInt(idx)]))

\* read_sparse_lc at offset p: ok (FALSE: the I/O error is returned), the
\* terms, the position after the call, and whether the declared count was
\* above the ceiling (the call then returns an empty combination).
read_sparse_lc(f, p, width) ==
  IF Eof(f, p, 4) THEN [ok |-> FALSE, terms |-> <<>>, pos |-> Len(f), over |-> FALSE]
  ELSE LET num_terms == U32At(f, p)
       IN IF U32Gt(num_terms, FromInt(MAX_TERMS_MAIN))
          THEN [ok |-> TRUE, terms |-> <<>>, pos |-> p + 4, over |-> TRUE]
          ELSE LET r == ReadTermsMain(f, p + 4, ToInt(num_terms), width, <<>>)
               IN [ok |-> r.ok, terms |-> r.terms, pos |-> r.pos, over |-> FALSE]

\* What R1CSFileInstance::read pushes for the combinations a, b, c it read:
\* an empty B becomes the single term 1 * wire 0, an empty C becomes a copy
\* of A.
MakeConstraint(a, b, c) ==
  [a |-> a,
   b |-> IF b = <<>> THEN <<[coeff |-> 1, wire |-> 0]>> ELSE b,
   c |-> IF c = <<>> THEN a ELSE c]

\* for i in 0..header.num_constraints(): is there another iteration?
LoopMore == U32Gt(header[1].num_constraints, FromInt(Len(constraints)))

\* One call of read_sparse_lc for the current constraint; after the third
\* one the constraint is completed and pushed.
InstReadSparseLc ==
  /\ entry = "instance" /\ pc = "lc" /\ LoopMore
  /\ LET r == read_sparse_lc(file, pos, header[1].field_size_bytes)
     IN /\ pos' = r.pos
        /\ maxRead' = Max(maxRead, r.pos)
        /\ overPos' = IF r.over /\ overPos = -1 THEN r.pos ELSE overPos
        /\ IF ~r.ok
           THEN /\ Stop("err")
                /\ UNCHANGED <<fixVars, lcIdx, cur, constraints>>
           ELSE /\ result' = result /\ pc' = pc
                /\ IF lcIdx < 2
                   THEN /\ lcIdx' = lcIdx + 1
                        /\ cur' = Append(cur, r.terms)
                        /\ constraints' = constraints
                   ELSE /\ lcIdx' = 0
                        /\ cur' = <<>>
                        /\ constraints' =
                             Append(constraints, MakeConstraint(cur[1], cur[2], r.terms))
  /\ UNCHANGED <<fixVars, build, entry, input, file, header, witness,
                 cirVars, packVars, scriptVars>>

\* After the last constraint: the witness vector (ONE_WIRE = 1, the rest 0)
\* and the Ok result.
InstFinish ==
  /\ entry = "instance" /\ pc = "lc" /\ ~LoopMore
  /\ witness' = [i \in 1..ToInt(header[1].num_witness) |-> IF i = 1 THEN 1 ELSE 0]
  /\ result' = "ok"
  /\ pc' = "alloc"
  /\ UNCHANGED <<fixVars, build, entry, input, file, pos, maxRead, header, lcIdx, cur,
                 constraints, overPos, cirVars, packVars, scriptVars>>

(***************************************************************************)
(* src/src/main.rs: CircuitFromR1CS and SparseLc::to_linear_combination    *)
(***************************************************************************)
MAX_PUBLIC == 2

\* safe_num_pub = min(num_pub, 2), num_pub being a header's num_public.
SafeNumPub(np) == IF U32Gt(np, FromInt(MAX_PUBLIC)) THEN MAX_PUBLIC ELSE ToInt(np)

\* The variable one term resolves to.  A wire index beyond the private
\* variables resolves to the ONE_WIRE variable.
ResolveWire(i, one, pubs, privs) ==
  IF i = 0 THEN one
  ELSE IF i <= Len(pubs) THEN pubs[i]
  ELSE IF i - 1 - Len(pubs) < Len(privs) THEN privs[i - Len(pubs)]
  ELSE one

\* to_linear_combination: coeff * variable for each term, in term order.
to_linear_combination(slc, one, pubs, privs) ==
  [k \in 1..Len(slc) |->
     [coeff |-> slc[k].coeff, wire |-> slc[k].wire,
      var |-> ResolveWire(slc[k].wire, one, pubs, privs)]]

\* Allocate ONE_WIRE as a witness variable, one input variable per public
\* input, and one witness variable per witness entry after the first.
CirAlloc ==
  /\ entry = "instance" /\ pc = "alloc"
  /\ oneVar' = <<[kind |-> "witness", index |-> 0]>>
  /\ pubVars' = [i \in 1..SafeNumPub(header[1].num_public) |->
                   [kind |-> "input", index |-> i]]
  /\ privVars' = [i \in 1..Max(Len(witness) - 1, 0) |->
                    [kind |-> "witness", index |-> i]]
  /\ pc' = "enforce"
  /\ UNCHANGED <<fixVars, build, entry, input, file, pos, maxRead, header, lcIdx, cur,
                 constraints, witness, result, overPos, asserted, cirResult,
                 packVars, scriptVars>>

\* The constraint loop walking the decoded list from its end.
CirEnforceFromEnd ==
  /\ entry = "instance" /\ pc = "enforce"
  /\ Len(asserted) < Len(constraints)
  /\ LET con == constraints[Len(constraints) - Len(asserted)]
         la == to_linear_combination(con.a, oneVar[1], pubVars, privVars)
         lb == to_linear_combination(con.b, oneVar[1], pubVars, privVars)
         lc_ == to_linear_combination(con.c, oneVar[1], pubVars, privVars)
     IN asserted' = Append(asserted, [a |-> la, b |-> lb, c |-> lc_])
  /\ UNCHANGED <<fixVars, decVars, oneVar, pubVars, privVars, cirResult, packVars, scriptVars>>

\* One iteration of the constraint loop: the three linear combinations of the
\* next constraint, enforced on the backend.
CirEnforce ==
  /\ entry = "instance" /\ pc = "enforce"
  /\ Len(asserted) < Len(constraints)
  /\ LET con == constraints[Len(asserted) + 1]
         la == to_linear_combination(con.a, oneVar[1], pubVars, privVars)
         lb == to_linear_combination(con.b, oneVar[1], pubVars, privVars)
         lc_ == to_linear_combination(con.c, oneVar[1], pubVars, privVars)
     IN asserted' = Append(asserted, [a |-> la, b |-> lb, c |-> lc_])
  /\ UNCHANGED <<fixVars, decVars, oneVar, pubVars, privVars, cirResult, packVars, scriptVars>>

\* The loop is over: generate_constraints returns Ok(()).
CirFinish ==
  /\ entry = "instance" /\ pc = "enforce"
  /\ Len(asserted) = Len(constraints)
  /\ cirResult' = "ok"
  /\ pc' = "done"
  /\ UNCHANGED <<fixVars, build, entry, input, file, pos, maxRead, header, lcIdx, cur,
                 constraints, witness, result, overPos, oneVar, pubVars,
                 privVars, asserted, packVars, scriptVars>>

(***************************************************************************)
(* src/src/r1cs.rs: read_r1cs_file                                         *)
(***************************************************************************)
MAX_TERMS_R1CS == 1000
RETRY_FROM == 64
RETRY_TO == 128
DUMP_BYTES == 32
COEFF_BYTES == 32

\* The [u8; 32] built from the field_size bytes of one coefficient: only a
\* one-byte coefficient is looked at; 1 sets the last byte, a larger value
\* sets the first byte.
CoeffOf(temp, field_size) ==
  [k \in 1..COEFF_BYTES |->
     IF field_size = 1 /\ temp[1] = 1 /\ k = COEFF_BYTES THEN 1
     ELSE IF field_size = 1 /\ temp[1] > 1 /\ k = 1 THEN 1
     ELSE 0]

\* The term loop of one matrix: n terms left at offset p.  The trace line
\* printed for each term indexes the first coefficient byte, which panics
\* when field_size is 0.
RECURSIVE ReadTermsR1cs(_, _, _, _, _)
ReadTermsR1cs(f, p, n, field_size, acc) ==
  IF n = 0 THEN [res |-> "ok", terms |-> acc, pos |-> p]
  ELSE IF Eof(f, p, 4 + field_size) THEN [res |-> "err", terms |-> acc, pos |-> Len(f)]
  ELSE IF field_size = 0 THEN [res |-> "panic", terms |-> acc, pos |-> p + 4]
  ELSE ReadTermsR1cs(f, p + 4 + field_size, n - 1, field_size,
         Append(acc, [wire |-> U32At(f, p),
                      coeff |-> CoeffOf(SubSeq(f, p + 5, p + 4 + field_size),
                                        field_size)]))

\* One matrix of constraint i (which = 0: A, 1: B, 2: C) read at offset p.
\* A count above 1000 returns an error, except for A of the first constraint
\* when it starts between offsets 64 and 128: the reader then seeks to 64 and
\* goes on with the count it has.  top is the highest offset read.
ReadMatrixR1cs(f, p, i, which, field_size) ==
  IF Eof(f, p, 4)
  THEN [res |-> "err", terms |-> <<>>, pos |-> Len(f), over |-> FALSE, top |-> Len(f)]
  ELSE LET count == U32At(f, p)
           over == U32Gt(count, FromInt(MAX_TERMS_R1CS))
           retry == which = 0 /\ i = 0 /\ p >= RETRY_FROM /\ p <= RETRY_TO
       IN IF over /\ ~retry
          THEN \* dump_binary_context reads 32 bytes at the count's offset
               [res |-> "err", terms |-> <<>>,
                pos |-> IF which = 0 /\ Eof(f, p, DUMP_BYTES) THEN Len(f) ELSE p + 4,
                over |-> TRUE,
                top |-> IF which = 0 THEN Min(p + DUMP_BYTES, Len(f)) ELSE p + 4]
          ELSE LET start == IF over THEN RETRY_FROM ELSE p + 4
                   r == ReadTermsR1cs(f, start, ToInt(count), field_size, <<>>)
               IN [res |-> r.res, terms |-> r.terms, pos |-> r.pos, over |-> over,
                   top |-> Max(p + 4, r.pos)]

\* read_exact of the 4 magic bytes; reject a wrong tag.
R1csReadMagic ==
  /\ entry = "r1cs" /\ pc = "magic"
  /\ IF Eof(file, 0, 4)
     THEN /\ pos' = Len(file) /\ maxRead' = Max(maxRead, Len(file))
          /\ Stop("err")
     ELSE /\ pos' = 4 /\ maxRead' = Max(maxRead, 4)
          /\ IF SubSeq(file, 1, 4) # <<114, 49, 99, 115>>
             THEN Stop("err")
             ELSE result' = result /\ pc' = "meta"
  /\ UNCHANGED <<fixVars, build, entry, input, file, header, lcIdx, cur, constraints,
                 witness, overPos, cirVars, packVars, scriptVars>>

\* version, num_wires, num_public_inputs, private_inputs_offset (u64),
\* field_size, num_constraints: read, printed, not checked.
R1csReadMeta ==
  /\ entry = "r1cs" /\ pc = "meta"
  /\ IF Eof(file, pos, 28)
     THEN /\ pos' = Len(file) /\ maxRead' = Max(maxRead, Len(file))
          /\ header' = header
          /\ Stop("err")
     ELSE /\ pos' = pos + 28 /\ maxRead' = Max(maxRead, pos + 28)
          /\ header' = <<[version |-> U32At(file, pos),
                          num_wires |-> U32At(file, pos + 4),
                          num_public_inputs |-> U32At(file, pos + 8),
                          field_size |-> ToInt(U32At(file, pos + 20)),
                          num_constraints |-> U32At(file, pos + 24)]>>
          /\ result' = result /\ pc' = "lc"
  /\ UNCHANGED <<fixVars, build, entry, input, file, lcIdx, cur, constraints,
                 witness, overPos, cirVars, packVars, scriptVars>>

\* One matrix of the current constraint; after C the constraint is pushed.
R1csReadMatrix ==
  /\ entry = "r1cs" /\ pc = "lc" /\ LoopMore
  /\ LET r == ReadMatrixR1cs(file, pos, Len(constraints), lcIdx, header[1].field_size)
     IN /\ pos' = r.pos
        /\ maxRead' = Max(maxRead, r.top)
        /\ overPos' = IF r.over /\ overPos = -1 THEN pos + 4 ELSE overPos
        /\ IF r.res # "ok"
           THEN /\ Stop(r.res)
                /\ UNCHANGED <<fixVars, lcIdx, cur, constraints>>
           ELSE /\ result' = result /\ pc' = pc
                /\ IF lcIdx < 2
                   THEN /\ lcIdx' = lcIdx + 1
                        /\ cur' = Append(cur, r.terms)
                        /\ constraints' = constraints
                   ELSE /\ lcIdx' = 0
                        /\ cur' = <<>>
                        /\ constraints' =
                             Append(constraints,
                                    [a |-> cur[1], b |-> cur[2], c |-> r.terms])
  /\ UNCHANGED <<fixVars, build, entry, input, file, header, witness,
                 cirVars, packVars, scriptVars>>

\* coeff[31] == 1: the coefficient 1; coeff[0] == 1: the constant p.
IsOne(coeff) == coeff[COEFF_BYTES] = 1
IsP(coeff) == coeff[1] = 1

\* Some term of ts is on wire w with the coefficient 1 / the constant p.
HasOne(ts, w) ==
  \E j \in 1..Len(ts) : ts[j].wire = FromInt(w) /\ IsOne(ts[j].coeff)

HasP(ts, w) ==
  \E j \in 1..Len(ts) : ts[j].wire = FromInt(w) /\ IsP(ts[j].coeff)

\* validate_constraints: nothing but a warning unless there are 4
\* constraints; otherwise the four `valid` flags, in order.
validate_constraints(cs) ==
  IF Len(cs) # 4 THEN <<>>
  ELSE << /\ Len(cs[1].a) = 1 /\ cs[1].a[1].wire = FromInt(4) /\ IsOne(cs[1].a[1].coeff)
          /\ Len(cs[1].b) = 1 /\ cs[1].b[1].wire = FromInt(1) /\ IsOne(cs[1].b[1].coeff)
          /\ cs[1].c = <<>>,
          /\ Len(cs[2].a) = 2 /\ HasP(cs[2].a, 0) /\ HasOne(cs[2].a, 4)
          /\ Len(cs[2].b) = 1 /\ cs[2].b[1].wire = FromInt(2) /\ IsOne(cs[2].b[1].coeff)
          /\ cs[2].c = <<>>,
          /\ cs[3].a = <<>> /\ cs[3].b = <<>>
          /\ Len(cs[3].c) = 3 /\ HasOne(cs[3].c, 1)
          /\ HasOne(cs[3].c, 2) /\ HasP(cs[3].c, 3),
          /\ Len(cs[4].a) = 2 /\ HasP(cs[4].a, 0) /\ HasOne(cs[4].a, 3)
          /\ Len(cs[4].b) = 1 /\ cs[4].b[1].wire = FromInt(3) /\ IsOne(cs[4].b[1].coeff)
          /\ cs[4].c = <<>> >>

\* All constraints read: the R1CSFile is built, validate_constraints prints
\* its verdicts, and the file is returned.
R1csFinish ==
  /\ entry = "r1cs" /\ pc = "lc" /\ ~LoopMore
  /\ result' = "ok"
  /\ pc' = "done"
  /\ verdicts' = validate_constraints(constraints)
  /\ UNCHANGED <<build, entry, input, file, pos, maxRead, header, lcIdx, cur,
                 constraints, witness, overPos, cirVars, packVars, scriptVars>>

(***************************************************************************)
(* src/src/r1cs.rs: create_hardcoded_r1cs                                  *)
(***************************************************************************)
HARDCODED_WIRES == 5
HARDCODED_PUBLIC == 2

\* [0u8; 32] with byte 31 set to 1, and with byte 0 set to 1.
CoeffOne == [k \in 1..COEFF_BYTES |-> IF k = COEFF_BYTES THEN 1 ELSE 0]
CoeffP == [k \in 1..COEFF_BYTES |-> IF k = 1 THEN 1 ELSE 0]

HardTerm(w, coeff) == [wire |-> FromInt(w), coeff |-> coeff]

\* The fixture with the B term of its last constraint on wire 2.
HardcodedWithWrongWire ==
  [num_wires |-> FromInt(HARDCODED_WIRES),
   num_public_inputs |-> FromInt(HARDCODED_PUBLIC),
   num_private_inputs |-> FromInt(0),
   num_constraints |-> FromInt(4),
   constraints |->
     << [a |-> <<HardTerm(4, CoeffOne)>>, b |-> <<HardTerm(1, CoeffOne)>>, c |-> <<>>],
        [a |-> <<HardTerm(0, CoeffP), HardTerm(4, CoeffOne)>>,
         b |-> <<HardTerm(2, CoeffOne)>>, c |-> <<>>],
        [a |-> <<>>, b |-> <<>>,
         c |-> <<HardTerm(1, CoeffOne), HardTerm(2, CoeffOne), HardTerm(3, CoeffP)>>],
        [a |-> <<HardTerm(0, CoeffP), HardTerm(3, CoeffOne)>>,
         b |-> <<HardTerm(2, CoeffOne)>>, c |-> <<>>] >>]

\* create_hardcoded_r1cs: the four constraints and the counts around them.
create_hardcoded_r1cs ==
  LET constraint1 == [a |-> <<HardTerm(4, CoeffOne)>>,
                      b |-> <<HardTerm(1, CoeffOne)>>, c |-> <<>>]
      constraint2 == [a |-> <<HardTerm(0, CoeffP), HardTerm(4, CoeffOne)>>,
                      b |-> <<HardTerm(2, CoeffOne)>>, c |-> <<>>]
      constraint3 == [a |-> <<>>, b |-> <<>>,
                      c |-> <<HardTerm(1, CoeffOne), HardTerm(2, CoeffOne),
                              HardTerm(3, CoeffP)>>]
      constraint4 == [a |-> <<HardTerm(0, CoeffP), HardTerm(3, CoeffOne)>>,
                      b |-> <<HardTerm(3, CoeffOne)>>, c |-> <<>>]
      cs == <<constraint1, constraint2, constraint3, constraint4>>
  IN [num_wires |-> FromInt(HARDCODED_WIRES),
      num_public_inputs |-> FromInt(HARDCODED_PUBLIC),
      num_private_inputs |-> FromInt(0),
      num_constraints |-> FromInt(Len(cs)),
      constraints |-> cs]

\* create_hardcoded_r1cs() is called: the R1CSFile it returns.
FixCreate ==
  /\ entry = "hardcoded" /\ pc = "create"
  /\ header' = <<[num_wires |-> create_hardcoded_r1cs.num_wires,
                  num_public_inputs |-> create_hardcoded_r1cs.num_public_inputs,
                  num_private_inputs |-> create_hardcoded_r1cs.num_private_inputs,
                  num_constraints |-> create_hardcoded_r1cs.num_constraints]>>
  /\ constraints' = create_hardcoded_r1cs.constraints
  /\ result' = "ok"
  /\ pc' = "validate"
  /\ UNCHANGED <<fixVars, build, entry, input, file, pos, maxRead, lcIdx,
                 cur, witness, overPos, cirVars, packVars, scriptVars>>

\* validate_constraints applied to a constraint list.
FixValidate ==
  /\ entry \in {"hardcoded", "parsed"} /\ pc = "validate"
  /\ verdicts' = validate_constraints(constraints)
  /\ pc' = "done"
  /\ UNCHANGED <<build, entry, input, file, pos, maxRead, header, lcIdx,
                 cur, constraints, witness, result, overPos, cirVars, packVars,
                 scriptVars>>

(***************************************************************************)
(* src/src/main.rs: packaging of the proof, public inputs and verifying key*)
(***************************************************************************)
FQ_BYTES == 48
G1_BYTES == 48
G2_BYTES == 96
FR_BYTES == 32
PROOF_ITEMS == 8
VK_CHUNK_SIZE == 72
VK_CHUNKS == 6
PUBLIC_SLOTS_END == 10
STACK_ITEMS == 17

\* Vec::resize(n, x): cut to n elements, or filled with x up to n.
Resize(s, n, x) ==
  IF Len(s) >= n THEN SubSeq(s, 1, n) ELSE s \o [i \in 1..(n - Len(s)) |-> x]

\* An element of a prime field F: its value and F's compressed size in bytes
\* (48 for the base field Fq of BLS12-381).
FieldElement(v, size) == [value |-> v, size |-> size]

\* serialize_fq_compressed::<F>: the little-endian bytes of the element, as
\* many as F's compressed size; whatever the backend wrote is returned.
serialize_fq_compressed(e) == LEBytes(e.value, e.size)

\* A scalar of Fr is its BigInt<4>: four 64-bit limbs, least significant
\* first, each limb kept as four 16-bit words, least significant first.
FrZero == [k \in 1..4 |-> <<0, 0, 0, 0>>]

\* BigInt::to_bytes_le: the limbs in order, each as u64::to_le_bytes.
to_bytes_le(x) ==
  Concat([k \in 1..Len(x) |->
            [i \in 1..8 |-> LET w == x[k][(i + 1) \div 2]
                            IN IF i % 2 = 1 THEN w % 256 ELSE w \div 256]])

\* The scalar written most significant byte first.
SerializeFrBigEndian(f) ==
  LET le == Resize(to_bytes_le(f), FR_BYTES, 0)
  IN [i \in 1..FR_BYTES |-> le[FR_BYTES + 1 - i]]

\* serialize_fr_to_32_bytes_le_padded_front: to_bytes_le, then resize(32, 0).
serialize_fr_to_32_bytes_le_padded_front(f) == Resize(to_bytes_le(f), FR_BYTES, 0)

\* slice::chunks(n): consecutive pieces of n bytes, the last one shorter when
\* the length is no multiple of n.
Chunks(s, n) ==
  [k \in 1..((Len(s) + n - 1) \div n) |-> SubSeq(s, (k - 1) * n + 1, Min(k * n, Len(s)))]

\* The chunk list after the length fix-up: filled with all-zero chunks up to
\* 6, or cut to 6.
VkChunksOf(bytes) ==
  LET chunks == Chunks(bytes, VK_CHUNK_SIZE)
  IN IF Len(chunks) < VK_CHUNKS
     THEN Resize(chunks, VK_CHUNKS, [i \in 1..VK_CHUNK_SIZE |-> 0])
     ELSE IF Len(chunks) > VK_CHUNKS THEN SubSeq(chunks, 1, VK_CHUNKS)
     ELSE chunks

\* alpha_g1, beta_g2, gamma_g2, delta_g2, then every gamma_abc_g1 point.
VkSerialize(k) ==
  k.alpha_g1 \o k.beta_g2 \o k.gamma_g2 \o k.delta_g2 \o Concat(k.gamma_abc_g1)

\* The stack item list: 8 proof items, the public input items, zero items up
\* to 10 entries, the chunks, the mode byte.
RECURSIVE PadPublic(_)
PadPublic(items) ==
  IF Len(items) < PUBLIC_SLOTS_END
  THEN PadPublic(Append(items, serialize_fr_to_32_bytes_le_padded_front(FrZero)))
  ELSE items

\* The list in the reverse layout: mode byte, chunks, public inputs, proof.
StackOfModeFirst(pitems, pubitems, chunks) ==
  <<(<<0>>)>> \o chunks
    \o PadPublic([i \in 1..PROOF_ITEMS |-> pitems[i]] \o pubitems)

StackOf(pitems, pubitems, chunks) ==
  PadPublic([i \in 1..PROOF_ITEMS |-> pitems[i]] \o pubitems) \o chunks \o <<(<<0>>)>>

safe_num_pub == Min(numPub, MAX_PUBLIC)

\* 6.1: the eight proof coordinates.
PackProof ==
  /\ ppc = "proof"
  /\ proofItems' = <<serialize_fq_compressed(proof.a.x),
                     serialize_fq_compressed(proof.a.y),
                     serialize_fq_compressed(proof.b.x.c0),
                     serialize_fq_compressed(proof.b.x.c1),
                     serialize_fq_compressed(proof.b.y.c0),
                     serialize_fq_compressed(proof.b.y.c1),
                     serialize_fq_compressed(proof.c.x),
                     serialize_fq_compressed(proof.c.y)>>
  /\ ppc' = "public"
  /\ UNCHANGED <<fixVars, decVars, cirVars, numPub, publicInputs, proof, vk, vkBytes,
                 publicItems, vkChunks, stackItems, scriptBuf, itemIdx>>

\* 6.2: one item per public input.
PackPublic ==
  /\ ppc = "public"
  /\ publicItems' = [i \in 1..safe_num_pub |->
                       serialize_fr_to_32_bytes_le_padded_front(publicInputs[i])]
  /\ ppc' = "vk"
  /\ UNCHANGED <<fixVars, decVars, cirVars, numPub, publicInputs, proof, vk, vkBytes,
                 proofItems, vkChunks, stackItems, scriptBuf, itemIdx>>

\* 6.3: the verifying key serialized and split.
PackVk ==
  /\ ppc = "vk"
  /\ vkBytes' = VkSerialize(vk)
  /\ vkChunks' = VkChunksOf(VkSerialize(vk))
  /\ ppc' = "stack"
  /\ UNCHANGED <<fixVars, decVars, cirVars, numPub, publicInputs, proof, vk, proofItems,
                 publicItems, stackItems, scriptBuf, itemIdx>>

\* 6.4: the stack item list and the assertion on its length.
PackStack ==
  /\ ppc = "stack"
  /\ stackItems' = StackOf(proofItems, publicItems, vkChunks)
  /\ ppc' = IF Len(StackOf(proofItems, publicItems, vkChunks)) = STACK_ITEMS
            THEN "script" ELSE "panic"
  /\ UNCHANGED <<fixVars, decVars, cirVars, packVars, scriptBuf, itemIdx>>

(***************************************************************************)
(* src/src/main.rs: script assembly                                        *)
(***************************************************************************)
OP_0 == 0
OP_PUSHDATA1 == 76
OP_PUSHDATA2 == 77
OP_CHECKZKP == 185
MAX_DIRECT_PUSH == 75
MAX_PUSHDATA1 == 255

\* The match without the arm for a single zero byte.
PushOpWithoutOp0(item) ==
  LET item_len == Len(item)
  IN IF item_len >= 1 /\ item_len <= MAX_DIRECT_PUSH THEN <<item_len>> \o item
     ELSE IF item_len > MAX_DIRECT_PUSH /\ item_len <= MAX_PUSHDATA1
     THEN <<OP_PUSHDATA1, item_len>> \o item
     ELSE <<OP_PUSHDATA2, item_len % 256, (item_len \div 256) % 256>> \o item

\* The match without the arm for the bare length-prefixed push.
PushOpWithoutDirectArm(item) ==
  LET item_len == Len(item)
  IN IF item_len = 1 /\ item[1] = 0 THEN <<OP_0>>
     ELSE IF item_len >= 1 /\ item_len <= MAX_PUSHDATA1
     THEN <<OP_PUSHDATA1, item_len>> \o item
     ELSE <<OP_PUSHDATA2, item_len % 256, (item_len \div 256) % 256>> \o item

\* The bytes the match on item_len appends for one item.
PushOp(item) ==
  LET item_len == Len(item)
  IN IF item_len = 1 /\ item[1] = 0 THEN <<OP_0>>
     ELSE IF item_len >= 1 /\ item_len <= MAX_DIRECT_PUSH THEN <<item_len>> \o item
     ELSE IF item_len > MAX_DIRECT_PUSH /\ item_len <= MAX_PUSHDATA1
     THEN <<OP_PUSHDATA1, item_len>> \o item
     ELSE <<OP_PUSHDATA2, item_len % 256, (item_len \div 256) % 256>> \o item

\* The loop walking the list from its end.
NextItemReversed == stackItems[Len(stackItems) - itemIdx]

\* The item the loop takes next.
NextItem == stackItems[itemIdx + 1]

\* One iteration of the loop over stack_items_bytes.
ScriptPush ==
  /\ ppc = "script"
  /\ itemIdx < Len(stackItems)
  /\ scriptBuf' = scriptBuf \o PushOp(NextItem)
  /\ itemIdx' = itemIdx + 1
  /\ UNCHANGED <<fixVars, decVars, cirVars, packVars, stackItems, ppc>>

\* After the loop: the terminal opcode.
ScriptTerminal ==
  /\ ppc = "script"
  /\ itemIdx = Len(stackItems)
  /\ scriptBuf' = Append(scriptBuf, OP_CHECKZKP)
  /\ ppc' = "done"
  /\ UNCHANGED <<fixVars, decVars, cirVars, packVars, stackItems, itemIdx>>

(***************************************************************************)
(* Specifications                                                          *)
(***************************************************************************)
MaxSeed == 2

DecodeIdle ==
  /\ build = "release" /\ entry = "none" /\ input = <<>> /\ file = <<>>
  /\ pos = 0 /\ maxRead = 0 /\ pc = "idle" /\ header = <<>> /\ lcIdx = 0
  /\ cur = <<>> /\ constraints = <<>> /\ witness = <<>> /\ result = "none"
  /\ overPos = -1

CircuitIdle ==
  /\ oneVar = <<>> /\ pubVars = <<>> /\ privVars = <<>> /\ asserted = <<>>
  /\ cirResult = "none"

FixtureIdle == verdicts = <<>>

PackIdle ==
  /\ numPub = 0 /\ publicInputs = <<>> /\ proof = <<>> /\ vk = <<>>
  /\ vkBytes = <<>>
  /\ proofItems = <<>> /\ publicItems = <<>> /\ vkChunks = <<>>

\* The decoders and the circuit builder, on the encoding of a synthetic input.
Init ==
  /\ \E b \in {"debug", "release"}, e \in {"instance", "r1cs"}, in \in Inputs :
       /\ build = b /\ entry = e /\ input = in
       /\ file = EncodeFile(e, in)
  /\ pos = 0 /\ maxRead = 0 /\ pc = "magic" /\ header = <<>> /\ lcIdx = 0
  /\ cur = <<>> /\ constraints = <<>> /\ witness = <<>> /\ result = "none"
  /\ overPos = -1
  /\ CircuitIdle /\ PackIdle /\ FixtureIdle
  /\ stackItems = <<>> /\ scriptBuf = <<>> /\ itemIdx = 0 /\ ppc = "idle"

Next ==
  \/ HdrReadMagic
  \/ HdrReadVersion
  \/ HdrReadFields
  \/ InstReadSparseLc
  \/ InstFinish
  \/ CirAlloc
  \/ CirEnforce
  \/ CirFinish
  \/ R1csReadMagic
  \/ R1csReadMeta
  \/ R1csReadMatrix
  \/ R1csFinish

Spec == Init /\ [][Next]_vars

\* One section of a sectioned container: section type (u32), payload size
\* (u64), payload.
Section(type, payload) ==
  U32Bytes(FromInt(type)) \o U32Bytes(FromInt(Len(payload))) \o <<0, 0, 0, 0>>
    \o payload

\* The header fields as the decoder e lays them out, without magic and
\* version.
HeaderPayload(e, h) == SubSeq(EncodeHeader(e, h), 9, Len(EncodeHeader(e, h)))

ConstraintPayload(e, in) ==
  Concat([i \in 1..Len(in.body) |->
            EncodeConstraint(in.body[i], CoeffWidth(e, in.hdr.fieldSize))])

\* Where the sections are: none (the flat container), or a section table
\* in one of three orders.
Layouts == {"flat", "header-first", "unknown-first", "constraints-first"}

\* A sectioned container: magic, version, then the sections.  The header
\* section has type 1 and the constraint section type 2; a section of type 7
\* is of no known type.
EncodeSectioned(e, in, layout) ==
  LET hdr == Section(1, HeaderPayload(e, in.hdr))
      cons == Section(2, ConstraintPayload(e, in))
      other == Section(7, <<0, 0, 0, 0>>)
  IN IF layout = "flat" THEN EncodeFile(e, in)
     ELSE in.hdr.magic \o U32Bytes(FromInt(in.hdr.version))
            \o (IF layout = "header-first" THEN hdr \o cons
                ELSE IF layout = "unknown-first" THEN other \o hdr \o cons
                ELSE cons \o hdr)

\* Headers with consistent counts and lists of the fixture's constraints.
SectionedInputs ==
  { [hdr |-> HeaderOf(GoodMagic, 1, 1, FromInt(5), FromInt(2), FromInt(2),
                      FromInt(Len(b))), body |-> b] :
      b \in { c \in Bodies : WellFormedBody(c) } }

\* The decoders and the circuit builder on the same header and constraints
\* in a flat container and in sectioned containers.
InitSectioned ==
  /\ \E b \in {"debug", "release"}, e \in {"instance", "r1cs"},
        in \in SectionedInputs, layout \in Layouts :
       /\ build = b /\ entry = e /\ input = in
       /\ file = EncodeSectioned(e, in, layout)
  /\ pos = 0 /\ maxRead = 0 /\ pc = "magic" /\ header = <<>> /\ lcIdx = 0
  /\ cur = <<>> /\ constraints = <<>> /\ witness = <<>> /\ result = "none"
  /\ overPos = -1
  /\ CircuitIdle /\ PackIdle /\ FixtureIdle
  /\ stackItems = <<>> /\ scriptBuf = <<>> /\ itemIdx = 0 /\ ppc = "idle"

SpecSectioned == InitSectioned /\ [][Next]_vars

\* The bytes of one compressed point as the backend hands them over.
PointBytes(seed, tag, n) == [i \in 1..n |-> (seed * 31 + tag * 7 + i) % 256]

\* A verifying key for a circuit with n public inputs: gamma_abc_g1 has one
\* point per instance variable, 1 + n.
VkOf(seed, n) ==
  [alpha_g1 |-> PointBytes(seed, 1, G1_BYTES),
   beta_g2 |-> PointBytes(seed, 2, G2_BYTES),
   gamma_g2 |-> PointBytes(seed, 3, G2_BYTES),
   delta_g2 |-> PointBytes(seed, 4, G2_BYTES),
   gamma_abc_g1 |-> [j \in 1..(1 + n) |-> PointBytes(seed, 4 + j, G1_BYTES)]]

NumPubs == {0, 1, 2, 3, 5}

\* A proof of Groth16<Bls12_381>: the affine points A and C over Fq and B
\* over Fq2, each coordinate a different value.
ProofOf(s) ==
  [a |-> [x |-> FieldElement(8 * s + 1, FQ_BYTES),
          y |-> FieldElement(8 * s + 2, FQ_BYTES)],
   b |-> [x |-> [c0 |-> FieldElement(8 * s + 3, FQ_BYTES),
                 c1 |-> FieldElement(8 * s + 4, FQ_BYTES)],
          y |-> [c0 |-> FieldElement(8 * s + 5, FQ_BYTES),
                 c1 |-> FieldElement(8 * s + 6, FQ_BYTES)]],
   c |-> [x |-> FieldElement(8 * s + 7, FQ_BYTES),
          y |-> FieldElement(8 * s + 8, FQ_BYTES)]]

\* main() from step 6 on: what the backend produced for a circuit with
\* min(num_pub, 2) public inputs.
InitPack ==
  /\ DecodeIdle /\ CircuitIdle /\ FixtureIdle
  /\ \E n \in NumPubs, s \in 0..MaxSeed, t \in 0..MaxSeed :
       /\ numPub = n
       /\ publicInputs = [i \in 1..Min(n, MAX_PUBLIC) |-> FrZero]
       /\ proof = ProofOf(s)
       /\ vk = VkOf(t, Min(n, MAX_PUBLIC))
  /\ vkBytes = <<>> /\ proofItems = <<>> /\ publicItems = <<>> /\ vkChunks = <<>>
  /\ stackItems = <<>> /\ scriptBuf = <<>> /\ itemIdx = 0 /\ ppc = "proof"

NextPack ==
  \/ PackProof
  \/ PackPublic
  \/ PackVk
  \/ PackStack
  \/ ScriptPush
  \/ ScriptTerminal

SpecPack == InitPack /\ [][NextPack]_vars

\* Scalars of Fr: 0, 1, 256, 0xabcd, 2^64, 0x73ed * 2^240, one with sixteen
\* different words, and r - 1 (r the order of the scalar field).
FrPool ==
  { FrZero,
    <<(<<1, 0, 0, 0>>), (<<0, 0, 0, 0>>), (<<0, 0, 0, 0>>), (<<0, 0, 0, 0>>)>>,
    <<(<<256, 0, 0, 0>>), (<<0, 0, 0, 0>>), (<<0, 0, 0, 0>>), (<<0, 0, 0, 0>>)>>,
    <<(<<43981, 0, 0, 0>>), (<<0, 0, 0, 0>>), (<<0, 0, 0, 0>>), (<<0, 0, 0, 0>>)>>,
    <<(<<0, 0, 0, 0>>), (<<1, 0, 0, 0>>), (<<0, 0, 0, 0>>), (<<0, 0, 0, 0>>)>>,
    <<(<<0, 0, 0, 0>>), (<<0, 0, 0, 0>>), (<<0, 0, 0, 0>>), (<<0, 0, 0, 29677>>)>>,
    [k \in 1..4 |-> [j \in 1..4 |-> 256 * (4 * k + j) + 16 * k + j]],
    <<(<<0, 0, 65535, 65535>>), (<<23550, 65534, 41986, 21437>>),
      (<<55301, 2465, 55304, 13113>>), (<<32072, 10653, 42835, 29677>>)>> }

\* Step 6.2 of main() on any list of at most two scalars.
InitPublic ==
  /\ DecodeIdle /\ CircuitIdle /\ FixtureIdle
  /\ publicInputs \in SeqsUpTo(FrPool, MAX_PUBLIC)
  /\ numPub = Len(publicInputs)
  /\ proof = <<>> /\ vk = <<>> /\ vkBytes = <<>>
  /\ proofItems = <<>> /\ publicItems = <<>> /\ vkChunks = <<>>
  /\ stackItems = <<>> /\ scriptBuf = <<>> /\ itemIdx = 0 /\ ppc = "public"

NextPublic == PackPublic

SpecPublic == InitPublic /\ [][NextPublic]_vars

\* The scalar 1.
FrOne == <<(<<1, 0, 0, 0>>), (<<0, 0, 0, 0>>), (<<0, 0, 0, 0>>), (<<0, 0, 0, 0>>)>>

\* Lists validate_constraints is applied to: 3 or 4 constraints, each one
\* of the four fixture constraints.
ParsedLists ==
  { [i \in 1..n |-> create_hardcoded_r1cs.constraints[f[i]]] :
      n \in {3}, f \in [1..3 -> 1..4] }
  \cup
  { [i \in 1..n |-> create_hardcoded_r1cs.constraints[f[i]]] :
      n \in {4}, f \in [1..4 -> 1..4] }

\* The fixture: create_hardcoded_r1cs then validate_constraints, beside the
\* witness x0 = 1, x1 = x2 = x3 = 0 and any x4; and validate_constraints on
\* other lists.
InitFixture ==
  /\ build = "release" /\ input = <<>> /\ file = <<>>
  /\ pos = 0 /\ maxRead = 0 /\ header = <<>> /\ lcIdx = 0
  /\ cur = <<>> /\ result = "none" /\ overPos = -1
  /\ CircuitIdle /\ PackIdle /\ FixtureIdle
  /\ stackItems = <<>> /\ scriptBuf = <<>> /\ itemIdx = 0 /\ ppc = "idle"
  /\ \/ /\ entry = "hardcoded" /\ pc = "create" /\ constraints = <<>>
        /\ \E x4 \in FrPool : witness = <<FrOne, FrZero, FrZero, FrZero, x4>>
     \/ /\ entry = "parsed" /\ pc = "validate" /\ witness = <<>>
        /\ constraints \in ParsedLists

NextFixture ==
  \/ FixCreate
  \/ FixValidate

SpecFixture == InitFixture /\ [][NextFixture]_vars

(***************************************************************************)
(* Claims about the decoders and the circuit builder (under Spec)          *)
(***************************************************************************)
\* A synthetic list is well formed when every declared count is the number
\* of terms that follow it.
WellFormed(body) ==
  \A i \in 1..Len(body) : \A k \in 1..3 : body[i][k].count = Len(body[i][k].terms)

\* The 32-byte big-endian image of a small coefficient value, the form
\* r1cs.rs keeps the value 1 in.
BEBytes32(v) == [k \in 1..COEFF_BYTES |-> IF k = COEFF_BYTES THEN v ELSE 0]

\* A decoded combination is the synthetic one: same length, and term by term
\* the same wire index and the same coefficient value.
SameLc(dec, syn) ==
  /\ Len(dec) = Len(syn.terms)
  /\ \A k \in 1..Len(dec) :
       IF entry = "instance"
       THEN dec[k].wire = syn.terms[k].wire /\ dec[k].coeff = syn.terms[k].coeff
       ELSE /\ dec[k].wire = FromInt(syn.terms[k].wire)
            /\ dec[k].coeff = BEBytes32(syn.terms[k].coeff)

SameList(decs, body) ==
  /\ Len(decs) = Len(body)
  /\ \A i \in 1..Len(decs) :
       /\ SameLc(decs[i].a, body[i][1])
       /\ SameLc(decs[i].b, body[i][2])
       /\ SameLc(decs[i].c, body[i][3])

\* public_input_count + private_input_count == total_wire_count - 1, over the
\* integers.
HeaderEquation(h) ==
  /\ ~U32Add(h.numPublic, h.numPrivate).overflow
  /\ ~U32Pred(h.totalWires).overflow
  /\ U32Add(h.numPublic, h.numPrivate).val = U32Pred(h.totalWires).val

\* A header a circuit compiler would write: the counts agree and a
\* coefficient takes at least one byte.
PlainHeader(h) == HeaderEquation(h) /\ h.fieldSize >= 1

\* C1: round trip.  Whenever a decoder returns Ok for the encoding of a
\* well-formed synthetic list under a plain header, the decoded list is the
\* synthetic list: as many constraints, as many terms per combination in the
\* same order, the same wire index and the same coefficient value per term.
C1_RoundTrip ==
  (result = "ok" /\ WellFormed(input.body) /\ PlainHeader(input.hdr))
    => SameList(constraints, input.body)

\* C2: once a declared term count above the decoder's ceiling has been read,
\* decoding has aborted with an error (so no constraint list is returned).
C2_OversizedCountAborts ==
  (overPos # -1 /\ PlainHeader(input.hdr)) => (result = "err" /\ pc = "done")

\* The terms of the linear combinations enforced so far.
AssertedTerms ==
  UNION { {asserted[k].a[j] : j \in 1..Len(asserted[k].a)}
            \cup {asserted[k].b[j] : j \in 1..Len(asserted[k].b)}
            \cup {asserted[k].c[j] : j \in 1..Len(asserted[k].c)} :
          k \in 1..Len(asserted) }

\* The wire indices of the synthetic list.
InputWires ==
  UNION { {input.body[i][k].terms[j].wire : j \in 1..Len(input.body[i][k].terms)} :
          i \in 1..Len(input.body), k \in 1..3 }

\* C3: a term whose wire index is not below total_wire_count is fatal: no
\* enforced constraint holds such a term (resolved to ONE_WIRE or to any other
\* variable), and the builder does not return Ok for a file holding one.
\* Stated for plain headers.
C3_OutOfRangeWireIsFatal ==
  (entry = "instance" /\ header # <<>> /\ PlainHeader(input.hdr))
    => /\ \A t \in AssertedTerms : t.wire < ToInt(input.hdr.totalWires)
       /\ cirResult = "ok" =>
            \A w \in InputWires : w < ToInt(input.hdr.totalWires)

\* C4: every header R1CSFileHeader::read returns satisfies
\* public_input_count + private_input_count == total_wire_count - 1.
\* Stated for files with at least one wire and no more public inputs than
\* wires.
C4_AcceptedHeaderEquation ==
  (/\ entry = "instance" /\ header # <<>>
   /\ U32Gt(input.hdr.totalWires, FromInt(0))
   /\ ~U32Gt(input.hdr.numPublic, input.hdr.totalWires))
    => HeaderEquation(input.hdr)

\* C5: a header whose public_input_count is above total_wire_count is not
\* returned, and a returned header carries the file's public_input_count.
\* Stated for files with at least one wire.
C5_NoSilentCorrection ==
  (entry = "instance" /\ header # <<>> /\ U32Gt(input.hdr.totalWires, FromInt(0)))
    => /\ ~U32Gt(input.hdr.numPublic, input.hdr.totalWires)
       /\ header[1].num_public = input.hdr.numPublic

\* C6: for a file whose first four bytes are not "r1cs", once the magic has
\* been read the decoder has returned an error, and nothing beyond the four
\* magic bytes has been read or decoded; for both entry points.
C6_BadMagicFailsFast ==
  (Len(file) >= 4 /\ SubSeq(file, 1, 4) # GoodMagic /\ pc # "magic")
    => /\ result = "err" /\ pc = "done"
       /\ pos = 4 /\ maxRead = 4
       /\ header = <<>> /\ cur = <<>> /\ constraints = <<>>

C6_Witness ==
  /\ entry = "instance" /\ SubSeq(file, 1, 4) = BadMagic
  /\ result = "err" /\ maxRead = 4
  /\ input.body # <<>>

(***************************************************************************)
(* Claims about the script assembler (under SpecPack)                      *)
(***************************************************************************)
\* The bytes one loop step appended to the script.
Appended == SubSeq(scriptBuf', Len(scriptBuf) + 1, Len(scriptBuf'))

\* The loop step kept what the script already held.
KeptPrefix ==
  /\ Len(scriptBuf') >= Len(scriptBuf)
  /\ SubSeq(scriptBuf', 1, Len(scriptBuf)) = scriptBuf

\* added is the push of item in the form the length L of item selects:
\* 0x00 alone for a single zero byte; L then the bytes for 1 <= L <= 75;
\* 0x4c, L, the bytes for 76 <= L <= 255; 0x4d, two bytes that hold L in
\* little-endian order, the bytes for L > 255.
PushAsClaimed(item, added) ==
  LET L == Len(item)
  IN IF L = 1 /\ item[1] = 0 THEN added = <<0>>
     ELSE IF L <= 75 THEN added = <<L>> \o item
     ELSE IF L <= 255 THEN added = <<76, L>> \o item
     ELSE /\ Len(added) = L + 3
          /\ added[1] = 77
          /\ added[2] \in 0..255 /\ added[3] \in 0..255
          /\ added[2] + 256 * added[3] = L
          /\ SubSeq(added, 4, L + 3) = item

\* One step of the loop over the stack items.
PushStep == ppc = "script" /\ itemIdx' = itemIdx + 1

PushesOf(n) == Concat([i \in 1..n |-> PushOp(stackItems[i])])

\* C8: the script is one push per stack item, in the order of the list
\* packaging produced, then the single byte 0xb9 as its last byte.
C8_ScriptIsPushesThenTerminal ==
  /\ ppc = "script" => scriptBuf = PushesOf(itemIdx)
  /\ ppc = "done" => scriptBuf = PushesOf(Len(stackItems)) \o <<185>>

C8_Witness ==
  /\ ppc = "done" /\ numPub = 1
  /\ Len(stackItems) = 17
  /\ scriptBuf[Len(scriptBuf)] = 185
  /\ scriptBuf[1] = 48

\* The k-th 72-byte piece of the serialized verifying key.
VkPiece(k) == SubSeq(vkBytes, 72 * (k - 1) + 1, Min(72 * k, Len(vkBytes)))

\* C9: once the stack item list is assembled it has exactly 17 items: the
\* coordinates A.x, A.y, B.x.c0, B.x.c1, B.y.c0, B.y.c1, C.x, C.y, two
\* public-input items (32 zero bytes each: the inputs are zero and so is the
\* filling), the six verifying-key chunks, the mode item 0x00; the assertion
\* on the length does not fail.
C9_StackLayout ==
  ppc \in {"script", "done", "panic"}
    => /\ ppc # "panic"
       /\ Len(stackItems) = 17
       /\ stackItems[1] = serialize_fq_compressed(proof.a.x)
       /\ stackItems[2] = serialize_fq_compressed(proof.a.y)
       /\ stackItems[3] = serialize_fq_compressed(proof.b.x.c0)
       /\ stackItems[4] = serialize_fq_compressed(proof.b.x.c1)
       /\ stackItems[5] = serialize_fq_compressed(proof.b.y.c0)
       /\ stackItems[6] = serialize_fq_compressed(proof.b.y.c1)
       /\ stackItems[7] = serialize_fq_compressed(proof.c.x)
       /\ stackItems[8] = serialize_fq_compressed(proof.c.y)
       /\ \A i \in 9..10 : stackItems[i] = [j \in 1..32 |-> 0]
       /\ \A k \in 1..6 : stackItems[10 + k] = VkPiece(k)
       /\ stackItems[17] = <<0>>

\* No public input: both public-input items are filling.
C9_Witness ==
  /\ ppc = "script" /\ numPub = 0 /\ publicItems = <<>>
  /\ Len(stackItems) = 17 /\ Len(stackItems[9]) = 32

\* C10: when the serialized verifying key is no multiple of 72 bytes long,
\* the chunks put on the stack are exactly 6 and each has exactly 72 bytes
\* (the last one filled with zeros on the right).
C10_ChunksPadded ==
  (ppc \in {"stack", "script", "done"} /\ Len(vkBytes) % 72 # 0)
    => /\ Len(vkChunks) = 6
       /\ \A k \in 1..Len(vkChunks) : Len(vkChunks[k]) = 72

\* The number of chunks slice::chunks(72) cuts the serialized key into.
ChunkCount == (Len(vkBytes) + 71) \div 72

\* C11: when the serialized verifying key does not split into exactly 6
\* chunks, packaging fails: it does not go on to a stack item list or a
\* script (neither after adding all-zero chunks nor after dropping the bytes
\* beyond the sixth chunk).
C11_ChunkCountMismatchIsFatal ==
  (ppc \in {"stack", "script", "done", "panic"} /\ ChunkCount # 6)
    => /\ ppc \notin {"script", "done"}
       /\ stackItems = <<>> /\ scriptBuf = <<>>

\* The k-th 16-bit digit (k = 1 the least significant) of a scalar's value.
FrWord(x, k) == x[((k - 1) \div 4) + 1][((k - 1) % 4) + 1]

\* C12 (under SpecPublic): every public-input item has exactly 32 bytes, and
\* read as a little-endian integer they are the scalar's value: bytes 2k-1
\* and 2k hold the k-th 16-bit digit of the value, low byte first, so no byte
\* of the value is dropped and the zero bytes are at the high-order end.
C12_ScalarIs32BytesLittleEndian ==
  ppc = "vk"
    => /\ Len(publicItems) = Len(publicInputs)
       /\ \A i \in 1..Len(publicItems) :
            /\ Len(publicItems[i]) = 32
            /\ \A k \in 1..16 :
                 publicItems[i][2 * k - 1] + 256 * publicItems[i][2 * k]
                   = FrWord(publicInputs[i], k)

\* The scalars 1 and r - 1 have been serialized: 1 is 0x01 then 31 zero
\* bytes, r - 1 ends with the byte 0x73.
C12_Witness ==
  /\ ppc = "vk" /\ Len(publicItems) = 2
  /\ FrWord(publicInputs[1], 1) = 1 /\ FrWord(publicInputs[2], 16) = 29677
  /\ FrWord(publicInputs[2], 15) = 42835
  /\ publicItems[1][1] = 1 /\ publicItems[1][32] = 0
  /\ publicItems[2][32] = 115 /\ publicItems[2][31] = 237

\* Once the proof is serialized there are eight coordinate items of 48
\* bytes each, and they are the first eight stack items, unchanged.
ProofCoordinatesAre48Bytes ==
  /\ ppc # "proof"
       => /\ Len(proofItems) = PROOF_ITEMS
          /\ \A i \in 1..PROOF_ITEMS : Len(proofItems[i]) = FQ_BYTES
  /\ \A i \in 1..Min(PROOF_ITEMS, Len(stackItems)) : stackItems[i] = proofItems[i]

(***************************************************************************)
(* Further claims about the decoders and the circuit builder (under Spec)  *)
(***************************************************************************)
\* C14: when a decoder returns Ok for the encoding of a well-formed list
\* under a plain header, every combination the file declares with 0 terms is
\* decoded with zero terms: no placeholder term, no copy of another
\* combination.
C14_EmptyCombinationStaysEmpty ==
  (result = "ok" /\ WellFormed(input.body) /\ PlainHeader(input.hdr)
     /\ Len(constraints) = Len(input.body))
    => \A i \in 1..Len(constraints) :
         /\ input.body[i][1].count = 0 => constraints[i].a = <<>>
         /\ input.body[i][2].count = 0 => constraints[i].b = <<>>
         /\ input.body[i][3].count = 0 => constraints[i].c = <<>>

\* The wire indices of a decoded combination, in term order.
DecodedWires(lc) ==
  [j \in 1..Len(lc) |-> IF entry = "instance" THEN lc[j].wire ELSE ToInt(lc[j].wire)]

\* The wire indices of a combination of the synthetic list, in term order.
FileWires(lc) == [j \in 1..Len(lc.terms) |-> lc.terms[j].wire]

\* An enforced combination is built from a decoded one: term by term the
\* same coefficient on the same wire.
BuiltFrom(alc, dlc) ==
  /\ Len(alc) = Len(dlc)
  /\ \A j \in 1..Len(alc) : alc[j].wire = dlc[j].wire /\ alc[j].coeff = dlc[j].coeff

\* C15: constraint order is preserved end to end.  When a decoder returns Ok
\* for the encoding of a well-formed list, it returns as many constraints as
\* the header's constraint count and the i-th one is the i-th of the file
\* (it has the file's A wires, and the file's B wires when the file's B is
\* not empty); the builder's k-th assertion is built from the k-th decoded
\* constraint, and when the builder returns Ok there is exactly one assertion
\* per decoded constraint.
C15_OrderPreserved ==
  /\ (result = "ok" /\ WellFormed(input.body))
       => /\ Len(constraints) = ToInt(input.hdr.numConstraints)
          /\ Len(constraints) = Len(input.body)
          /\ \A i \in 1..Len(constraints) :
               /\ DecodedWires(constraints[i].a) = FileWires(input.body[i][1])
               /\ input.body[i][2].count > 0
                    => DecodedWires(constraints[i].b) = FileWires(input.body[i][2])
  /\ Len(asserted) <= Len(constraints)
  /\ \A k \in 1..Len(asserted) :
       /\ BuiltFrom(asserted[k].a, constraints[k].a)
       /\ BuiltFrom(asserted[k].b, constraints[k].b)
       /\ BuiltFrom(asserted[k].c, constraints[k].c)
  /\ cirResult = "ok" => Len(asserted) = Len(constraints)

\* Two different constraints decoded and both enforced.
C15_Witness ==
  /\ cirResult = "ok" /\ WellFormed(input.body)
  /\ Len(input.body) = 2 /\ input.body[1] # input.body[2]
  /\ Len(asserted) = 2
  /\ asserted[1].a # asserted[2].a

\* C16: once the builder has allocated its variables for a file with a plain
\* header, there is exactly one variable per wire, total_wire_count in all:
\* wire 0 is the backend's one constant (not a variable of its own), there
\* is one input variable per public input of the header and the remaining
\* wires are witness variables; and every enforced term on a wire in
\* 1..=public_input_count is on an input variable.
C16_OneVariablePerWire ==
  (entry = "instance" /\ oneVar # <<>> /\ PlainHeader(input.hdr))
    => /\ Len(oneVar) + Len(pubVars) + Len(privVars) = ToInt(input.hdr.totalWires)
       /\ oneVar[1].kind = "one"
       /\ Len(pubVars) = ToInt(input.hdr.numPublic)
       /\ \A t \in AssertedTerms :
            (t.wire >= 1 /\ t.wire <= ToInt(input.hdr.numPublic))
              => t.var.kind = "input"

(***************************************************************************)
(* The four-constraint fixture (under SpecFixture)                         *)
(***************************************************************************)
\* The order r of the scalar field, as sixteen 16-bit digits, least
\* significant first.
FrModulus ==
  <<1, 0, 65535, 65535, 23550, 65534, 41986, 21437,
    55301, 2465, 55304, 13113, 32072, 10653, 42835, 29677>>

\* The value of a scalar as sixteen 16-bit digits, least significant first.
Digits(x) == [k \in 1..16 |-> FrWord(x, k)]

\* The value of a 32-byte coefficient read most significant byte first.
CoeffDigits(coeff) == [k \in 1..16 |-> coeff[34 - 2 * k] + 256 * coeff[33 - 2 * k]]

ZeroDigits == [k \in 1..16 |-> 0]
OneDigits == [k \in 1..16 |-> IF k = 1 THEN 1 ELSE 0]

RECURSIVE AddDigits(_, _, _, _)
AddDigits(a, b, k, carry) ==
  IF k > 16 THEN <<>>
  ELSE LET t == a[k] + b[k] + carry
       IN <<t % Half>> \o AddDigits(a, b, k + 1, t \div Half)

RECURSIVE SubDigits(_, _, _, _)
SubDigits(a, b, k, borrow) ==
  IF k > 16 THEN <<>>
  ELSE LET t == a[k] - b[k] - borrow
       IN IF t < 0 THEN <<t + Half>> \o SubDigits(a, b, k + 1, 1)
          ELSE <<t>> \o SubDigits(a, b, k + 1, 0)

RECURSIVE GeqDigits(_, _, _)
GeqDigits(a, b, k) ==
  IF k = 0 THEN TRUE
  ELSE IF a[k] # b[k] THEN a[k] > b[k]
  ELSE GeqDigits(a, b, k - 1)

\* a + b in the scalar field.
FieldAdd(a, b) ==
  LET sum == AddDigits(a, b, 1, 0)
  IN IF GeqDigits(sum, FrModulus, 16) THEN SubDigits(sum, FrModulus, 1, 0) ELSE sum

\* a * b in the scalar field; a product of two values other than 0 and 1 is
\* kept as the pair of its factors.
FieldMul(a, b) ==
  IF a = ZeroDigits \/ b = ZeroDigits THEN ZeroDigits
  ELSE IF a = OneDigits THEN b
  ELSE IF b = OneDigits THEN a
  ELSE [factors |-> {a, b}]

\* The value of a combination on the assignment w (w[i + 1] is wire i).
RECURSIVE Evaluate(_, _)
Evaluate(ts, w) ==
  IF ts = <<>> THEN ZeroDigits
  ELSE FieldAdd(FieldMul(CoeffDigits(Head(ts).coeff), Digits(w[ToInt(Head(ts).wire) + 1])),
                Evaluate(Tail(ts), w))

\* A.w * B.w = C.w
Satisfied(c, w) == FieldMul(Evaluate(c.a, w), Evaluate(c.b, w)) = Evaluate(c.c, w)

\* The wires of a combination of a fixture constraint, in term order.
HardWires(ts) == [j \in 1..Len(ts) |-> ToInt(ts[j].wire)]

\* C18: the list create_hardcoded_r1cs builds is the four-constraint
\* scenario: 5 wires, 2 public inputs, 4 constraints with the term counts
\* (1,1,0), (2,1,0), (0,0,3), (2,1,0) on the scenario's wires; all four
\* checks of validate_constraints pass on it; and the assignment x0 = 1,
\* x1 = x2 = x3 = 0 satisfies A.w * B.w = C.w in each of the four, whatever
\* x4 is.
C18_HardcodedFixture ==
  (entry = "hardcoded" /\ pc # "create")
    => /\ header[1].num_wires = FromInt(5)
       /\ header[1].num_public_inputs = FromInt(2)
       /\ header[1].num_constraints = FromInt(4)
       /\ Len(constraints) = 4
       /\ HardWires(constraints[1].a) = <<4>> /\ HardWires(constraints[1].b) = <<1>>
       /\ HardWires(constraints[1].c) = <<>>
       /\ HardWires(constraints[2].a) = <<0, 4>> /\ HardWires(constraints[2].b) = <<2>>
       /\ HardWires(constraints[2].c) = <<>>
       /\ HardWires(constraints[3].a) = <<>> /\ HardWires(constraints[3].b) = <<>>
       /\ HardWires(constraints[3].c) = <<1, 2, 3>>
       /\ HardWires(constraints[4].a) = <<0, 3>> /\ HardWires(constraints[4].b) = <<3>>
       /\ HardWires(constraints[4].c) = <<>>
       /\ pc = "done" => verdicts = <<TRUE, TRUE, TRUE, TRUE>>
       /\ \A i \in 1..4 : Satisfied(constraints[i], witness)

\* The fixture has been built and validated beside a witness whose x4 is
\* r - 1.
C18_Witness ==
  /\ entry = "hardcoded" /\ pc = "done"
  /\ Len(verdicts) = 4 /\ Len(constraints) = 4
  /\ Len(witness) = 5 /\ FrWord(witness[5], 16) = 29677 /\ FrWord(witness[5], 1) = 0
  /\ FrWord(witness[5], 3) = 65535

(***************************************************************************)
(* The version field and the container layout (under Spec)                 *)
(***************************************************************************)
\* C19: for a file with the right magic whose version is not 1, once the
\* decoder has read the version it has returned an error, and no combination
\* and no constraint has been parsed; for both entry points.
C19_UnsupportedVersionRejected ==
  (/\ input.hdr.magic = GoodMagic /\ input.hdr.version # 1
   /\ pc \notin {"magic", "version", "meta"})
    => /\ result = "err" /\ pc = "done"
       /\ cur = <<>> /\ constraints = <<>>

\* The file carries a section table.
Sectioned == file # EncodeFile(entry, input)

\* The decoded header has the counts of the file's header section.
DecodedHeaderIsFiles ==
  IF entry = "instance"
  THEN /\ header[1].num_witness = input.hdr.totalWires
       /\ header[1].num_public = input.hdr.numPublic
       /\ header[1].num_constraints = input.hdr.numConstraints
  ELSE /\ header[1].num_wires = input.hdr.totalWires
       /\ header[1].num_public_inputs = input.hdr.numPublic
       /\ header[1].num_constraints = input.hdr.numConstraints

\* C20 (under SpecSectioned): for a container with a section table, wherever
\* the header section and the constraint section are placed, the decoder
\* does not fail, the header it decodes has the counts of the header
\* section, and on Ok the decoded constraints are those of the constraint
\* section (as many, with the same A wires).
C20_SectionsLocatedByType ==
  (Sectioned /\ pc \notin {"magic", "version", "meta", "fields"})
    => /\ result \notin {"err", "panic"}
       /\ header # <<>> /\ DecodedHeaderIsFiles
       /\ result = "ok"
            => /\ Len(constraints) = Len(input.body)
               /\ \A i \in 1..Len(constraints) :
                    DecodedWires(constraints[i].a) = FileWires(input.body[i][1])


\* On a flat container the decoded header has the file's counts.
FlatHeaderIsFiles ==
  (~Sectioned /\ header # <<>>) => DecodedHeaderIsFiles


\* C21: whenever a decoder has returned a header (R1CSFileHeader::read, and
\* the metadata read of read_r1cs_file, after which the constraint vector is
\* reserved and the constraint loop bounded by the count), its constraint
\* count is at most the ceiling of 1,000,000; also when public_input_count
\* is above total_wire_count.
C21_ConstraintCountBelowCeiling ==
  header # <<>>
    => ~U32Gt(header[1].num_constraints, FromInt(MAX_REASONABLE_CONSTRAINTS))

\* C21 for the instance decoder alone.
C21_InstanceCountBelowCeiling ==
  (entry = "instance" /\ header # <<>>)
    => ~U32Gt(header[1].num_constraints, FromInt(MAX_REASONABLE_CONSTRAINTS))

\* C21 for the instance decoder on headers whose public_input_count is not
\* above total_wire_count: there the ceiling is enforced.
C21_CeilingOnPlainBranch ==
  (/\ entry = "instance" /\ header # <<>>
   /\ ~U32Gt(input.hdr.numPublic, input.hdr.totalWires))
    => ~U32Gt(header[1].num_constraints, FromInt(MAX_REASONABLE_CONSTRAINTS))


\* C22: R1CSFileHeader::read never fails on the subtraction
\* total_wires - 1, and every header it returns has num_public at most
\* num_witness (the total wire count); for every header in the file,
\* total_wires = 0 included.
C22_PublicAtMostWires ==
  entry = "instance"
    => /\ result # "panic"
       /\ header # <<>> => ~U32Gt(header[1].num_public, header[1].num_witness)

\* C22 for files with at least one wire: there it holds.
C22_PublicAtMostWiresWhenWired ==
  (entry = "instance" /\ U32Gt(input.hdr.totalWires, FromInt(0))
     /\ ~(U32Add(input.hdr.numPublic, input.hdr.numPrivate).overflow))
    => /\ result # "panic"
       /\ header # <<>> => ~U32Gt(header[1].num_public, header[1].num_witness)


PackedItemsNonEmpty ==
  \A i \in 1..Len(stackItems) : stackItems[i] # <<>>

====
